---- MODULE Spec2Model ----
(***************************************************************************)
(* Sliding-window extremum indicators of ta-rs: Maximum                    *)
(* (src/indicators/maximum.rs) and Minimum (src/indicators/minimum.rs).    *)
(*                                                                         *)
(* One indicator is constructed by new(period) and then driven by next     *)
(* (scalar or bar input), reset and period.  The f64 samples are modelled  *)
(* by a small ordered set of finite values plus the two infinities and a   *)
(* NaN, with the IEEE comparison rules (every comparison with NaN false).  *)
(***************************************************************************)
EXTENDS Integers, Sequences, FiniteSets, TLC

\* ---------------------------------------------------------------- bounds
\* largest period passed to new
MaxPeriod == 3
\* finite samples are 0 .. MaxVal
MaxVal == 1
\* largest period passed to new when bars are fed
BarMaxPeriod == 2
\* the finite highs and lows of bars are 0 .. BarMaxVal
BarMaxVal == 0

\* ---------------------------------------------------------------- f64
Finite == 0..MaxVal
NEG_INFINITY == 0 - (MaxVal + 1)
INFINITY == MaxVal + 1
NAN == MaxVal + 2
F64 == Finite \cup {NEG_INFINITY, INFINITY, NAN}

\* mutant: a total order in which NaN compares above every value
gt_total(a, b) == a > b

\* f64 `>` : false whenever an operand is NaN
gt(a, b) == a # NAN /\ b # NAN /\ a > b
\* f64 `<` : false whenever an operand is NaN
lt(a, b) == a # NAN /\ b # NAN /\ a < b

\* f64 unary minus: NaN stays NaN, the infinities swap
Neg(a) == IF a = NAN THEN NAN ELSE 0 - a

\* ---------------------------------------------------------------- bars
\* a price bar exposing the High and Low accessors
BarF64 == (0..BarMaxVal) \cup {NEG_INFINITY, INFINITY, NAN}
Bars == [high : BarF64, low : BarF64]
high(b) == b.high
low(b) == b.low
NoBar == [high |-> NEG_INFINITY, low |-> INFINITY]

\* ---------------------------------------------------------------- Maximum
\* mutant: one slot too many
MaximumNew_extra_slot(period) ==
    [period    |-> period,
     max_index |-> 0,
     cur_index |-> 0,
     deque     |-> [i \in 0..period |-> NEG_INFINITY]]

\* Maximum::new, the Ok arm
MaximumNew(period) ==
    [period    |-> period,
     max_index |-> 0,
     cur_index |-> 0,
     deque     |-> [i \in 0..(period - 1) |-> NEG_INFINITY]]

\* the loop of find_max_index from slot i on, with the running (max, index)
RECURSIVE max_scan(_, _, _, _)
max_scan(deque, i, max, index) ==
    IF i \notin DOMAIN deque THEN index
    ELSE IF gt(deque[i], max) THEN max_scan(deque, i + 1, deque[i], i)
    ELSE max_scan(deque, i + 1, max, index)

\* mutant: the scan takes a slot that equals the running maximum too, so
\* the last occurrence wins
RECURSIVE max_scan_ge(_, _, _, _)
max_scan_ge(deque, i, max, index) ==
    IF i \notin DOMAIN deque THEN index
    ELSE IF gt(deque[i], max) \/ deque[i] = max
         THEN max_scan_ge(deque, i + 1, deque[i], i)
    ELSE max_scan_ge(deque, i + 1, max, index)

find_max_index_last_wins(deque) == max_scan_ge(deque, 0, NEG_INFINITY, 0)

\* mutant: the scan starts at slot 1
find_max_index_skip_first(deque) == max_scan(deque, 1, NEG_INFINITY, 0)

find_max_index(deque) == max_scan(deque, 0, NEG_INFINITY, 0)

\* mutant: <= for < in the wrap test
max_advance_le(t) == IF t.cur_index + 1 <= t.period THEN t.cur_index + 1 ELSE 0

\* mutant: the cursor wraps one slot early
max_advance_early_wrap(t) == IF t.cur_index + 2 < t.period THEN t.cur_index + 1 ELSE 0

\* the cursor advance of Maximum::next
max_advance(t) == IF t.cur_index + 1 < t.period THEN t.cur_index + 1 ELSE 0

\* mutant: no rescan when the slot of the maximum is overwritten
max_select_no_rescan(t, d, input) ==
    IF gt(input, d[t.max_index]) THEN t.cur_index ELSE t.max_index

\* mutant: the comparison of Minimum::next, < for >
max_select_lt(t, d, input) ==
    IF lt(input, d[t.max_index]) THEN t.cur_index
    ELSE IF t.max_index = t.cur_index THEN find_max_index(d)
    ELSE t.max_index

\* mutant: the cursor is advanced before max_index is assigned
max_select_after_advance(t, d, input) ==
    IF gt(input, d[t.max_index]) THEN max_advance(t)
    ELSE IF t.max_index = t.cur_index THEN find_max_index(d)
    ELSE t.max_index

\* mutant: when the slot of the maximum is overwritten the new sample is
\* taken as the maximum without a scan
max_select_set_on_evict(t, d, input) ==
    IF gt(input, d[t.max_index]) \/ t.max_index = t.cur_index THEN t.cur_index
    ELSE t.max_index

\* the max_index update of Maximum::next, on the deque already written
max_select(t, d, input) ==
    IF gt(input, d[t.max_index]) THEN t.cur_index
    ELSE IF t.max_index = t.cur_index THEN find_max_index(d)
    ELSE t.max_index

\* mutant: the scan runs whenever the sample is not a new maximum
max_branch_always_scan(t, d, input) ==
    IF gt(input, d[t.max_index]) THEN "set" ELSE "scan"

\* the arm of the if / else-if of Maximum::next that runs: "set" (a), "scan"
\* (b: find_max_index is called) or "keep" (neither)
max_branch(t, d, input) ==
    IF gt(input, d[t.max_index]) THEN "set"
    ELSE IF t.max_index = t.cur_index THEN "scan"
    ELSE "keep"

\* mutant: a sample below the slot's value is not stored
MaximumNext_keep_larger(t, input) ==
    LET d == IF gt(t.deque[t.cur_index], input) THEN t.deque
             ELSE [t.deque EXCEPT ![t.cur_index] = input]
    IN  [period    |-> t.period,
         max_index |-> max_select(t, d, input),
         cur_index |-> max_advance(t),
         deque     |-> d]

\* Maximum::next (f64): the tracker after the call
MaximumNext(t, input) ==
    LET d == [t.deque EXCEPT ![t.cur_index] = input]
    IN  [period    |-> t.period,
         max_index |-> max_select(t, d, input),
         cur_index |-> max_advance(t),
         deque     |-> d]

\* mutant: reset also steps the cursor
MaximumReset_steps_cursor(t) ==
    [period    |-> t.period,
     max_index |-> t.max_index,
     cur_index |-> max_advance(t),
     deque     |-> [i \in DOMAIN t.deque |-> NEG_INFINITY]]

\* mutant: reset also clears period
MaximumReset_clears_period(t) ==
    [period    |-> 0,
     max_index |-> t.max_index,
     cur_index |-> t.cur_index,
     deque     |-> [i \in DOMAIN t.deque |-> NEG_INFINITY]]

\* Maximum::reset
MaximumReset(t) ==
    [t EXCEPT !.deque = [i \in DOMAIN t.deque |->
                            IF i < t.period THEN NEG_INFINITY ELSE t.deque[i]]]

\* ---------------------------------------------------------------- Minimum
\* Minimum::new, the Ok arm
MinimumNew(period) ==
    [period    |-> period,
     min_index |-> 0,
     cur_index |-> 0,
     deque     |-> [i \in 0..(period - 1) |-> INFINITY]]

\* the loop of find_min_index from slot i on, with the running (min, index)
RECURSIVE min_scan(_, _, _, _)
min_scan(deque, i, min, index) ==
    IF i \notin DOMAIN deque THEN index
    ELSE IF lt(deque[i], min) THEN min_scan(deque, i + 1, deque[i], i)
    ELSE min_scan(deque, i + 1, min, index)

find_min_index(deque) == min_scan(deque, 0, INFINITY, 0)

\* the cursor advance of Minimum::next
min_advance(t) == IF t.cur_index + 1 < t.period THEN t.cur_index + 1 ELSE 0

\* mutant: <= for < in the comparison of Minimum::next
min_select_le(t, d, input) ==
    IF lt(input, d[t.min_index]) \/ input = d[t.min_index] THEN t.cur_index
    ELSE IF t.min_index = t.cur_index THEN find_min_index(d)
    ELSE t.min_index

\* the min_index update of Minimum::next, on the deque already written
min_select(t, d, input) ==
    IF lt(input, d[t.min_index]) THEN t.cur_index
    ELSE IF t.min_index = t.cur_index THEN find_min_index(d)
    ELSE t.min_index

\* the arm of the if / else-if of Minimum::next that runs
min_branch(t, d, input) ==
    IF lt(input, d[t.min_index]) THEN "set"
    ELSE IF t.min_index = t.cur_index THEN "scan"
    ELSE "keep"

\* Minimum::next (f64): the tracker after the call
MinimumNext(t, input) ==
    LET d == [t.deque EXCEPT ![t.cur_index] = input]
    IN  [period    |-> t.period,
         min_index |-> min_select(t, d, input),
         cur_index |-> min_advance(t),
         deque     |-> d]

\* Minimum::reset
MinimumReset(t) ==
    [t EXCEPT !.deque = [i \in DOMAIN t.deque |->
                            IF i < t.period THEN INFINITY ELSE t.deque[i]]]

\* ---------------------------------------------------------------- either kind
Kinds == {"Maximum", "Minimum"}

\* the index field of the tracker: max_index resp. min_index
ExtremeIndex(k, t) == IF k = "Maximum" THEN t.max_index ELSE t.min_index
TrackerNew(k, p) == IF k = "Maximum" THEN MaximumNew(p) ELSE MinimumNew(p)
TrackerNext(k, t, v) == IF k = "Maximum" THEN MaximumNext(t, v) ELSE MinimumNext(t, v)
TrackerReset(k, t) == IF k = "Maximum" THEN MaximumReset(t) ELSE MinimumReset(t)
\* the value returned by next: self.deque[self.max_index] after the update
TrackerOutput(k, t) == t.deque[ExtremeIndex(k, t)]
\* the arm of next that runs for input v
TrackerBranch(k, t, v) ==
    LET d == [t.deque EXCEPT ![t.cur_index] = v]
    IN  IF k = "Maximum" THEN max_branch(t, d, v) ELSE min_branch(t, d, v)
\* the indicator of the opposite polarity
Mirror(k) == IF k = "Maximum" THEN "Minimum" ELSE "Maximum"
\* mutant: Maximum reads the low of the bar
BarField_low(k, b) == low(b)

\* the scalar the bar overload of next extracts
BarField(k, b) == IF k = "Maximum" THEN high(b) ELSE low(b)
\* every slice index used by next is in range (otherwise the call panics)
IndicesInRange(k, t) ==
    /\ t.cur_index \in DOMAIN t.deque
    /\ ExtremeIndex(k, t) \in DOMAIN t.deque
\* every slice index used by reset is in range
ResetInRange(t) == \A i \in 0..(t.period - 1) : i \in DOMAIN t.deque

\* the tracker before construction
NoTracker == [period |-> 0, cur_index |-> 0, deque |-> <<>>]

\* ---------------------------------------------------------------- state
VARIABLES
    kind,        \* which indicator new was called on ("none" before)
    arg,         \* the period passed to new
    result,      \* "none", "Ok" or "InvalidParameter": what new returned
    self,        \* the indicator
    op,          \* the last operation
    input,       \* the f64 passed to the last next
    bar,         \* the bar passed to the last next(&bar)
    output,      \* the value returned by the last next
    period_out,  \* the value period() returned, when it was the last call (else 0)
    window,      \* the samples fed since new or the last reset, last period of them
    fresh,       \* a tracker built by new(period) at the last reset and fed the same samples
    fresh_out,   \* what that tracker returned for the last sample
    was_reset,   \* reset has been called since new
    evicted,     \* the last next overwrote the slot of the tracked extremum
    branch,      \* the arm of the last next: "set", "scan" or "keep" ("none" otherwise)
    fed_finite,  \* a finite sample was fed since new or the last reset
    twin,        \* an indicator of the opposite polarity fed the negated samples
    twin_out,    \* what the twin returned for the last sample
    panicked     \* an index was out of range

vars == <<kind, arg, result, self, op, input, bar, output, period_out,
          window, fresh, fresh_out, was_reset, evicted, branch, fed_finite,
          twin, twin_out, panicked>>

Init ==
    /\ kind = "none"
    /\ arg = 0
    /\ result = "none"
    /\ self = NoTracker
    /\ op = "init"
    /\ input = NAN
    /\ bar = NoBar
    /\ output = NAN
    /\ period_out = 0
    /\ window = <<>>
    /\ fresh = NoTracker
    /\ fresh_out = NAN
    /\ was_reset = FALSE
    /\ evicted = FALSE
    /\ branch = "none"
    /\ fed_finite = FALSE
    /\ twin = NoTracker
    /\ twin_out = NAN
    /\ panicked = FALSE

\* the last n samples of s followed by v
Slide(s, v, n) ==
    LET a == Append(s, v)
    IN  IF Len(a) > n THEN SubSeq(a, Len(a) - n + 1, Len(a)) ELSE a

\* Maximum::new / Minimum::new
New(k, p) ==
    /\ result = "none"
    /\ kind' = k
    /\ arg' = p
    /\ op' = "new"
    /\ IF p = 0
       THEN /\ result' = "InvalidParameter"
            /\ UNCHANGED <<self, fresh, twin>>
       ELSE /\ result' = "Ok"
            /\ self' = TrackerNew(k, p)
            /\ fresh' = TrackerNew(k, p)
            /\ twin' = TrackerNew(Mirror(k), p)
    /\ UNCHANGED <<input, bar, output, period_out, window, fresh_out,
                   was_reset, evicted, branch, fed_finite, twin_out, panicked>>

Live == result = "Ok" /\ ~panicked

\* the body shared by the two next overloads
DoNext(v) ==
    IF IndicesInRange(kind, self)
    THEN /\ self' = TrackerNext(kind, self, v)
         /\ output' = TrackerOutput(kind, self')
         /\ fresh' = TrackerNext(kind, fresh, v)
         /\ fresh_out' = TrackerOutput(kind, fresh')
         /\ window' = Slide(window, v, self.period)
         /\ input' = v
         /\ evicted' = (ExtremeIndex(kind, self) = self.cur_index)
         /\ branch' = TrackerBranch(kind, self, v)
         /\ fed_finite' = (fed_finite \/ v \in Finite)
         /\ IF IndicesInRange(Mirror(kind), twin)
            THEN /\ twin' = TrackerNext(Mirror(kind), twin, Neg(v))
                 /\ twin_out' = TrackerOutput(Mirror(kind), twin')
            ELSE UNCHANGED <<twin, twin_out>>
         /\ UNCHANGED panicked
    ELSE /\ panicked' = TRUE
         /\ UNCHANGED <<self, output, fresh, fresh_out, window, input, evicted,
                        branch, fed_finite, twin, twin_out>>

\* Next<f64>::next
NextF64(v) ==
    /\ Live
    /\ op' = "next"
    /\ bar' = NoBar
    /\ DoNext(v)
    /\ period_out' = 0
    /\ UNCHANGED <<kind, arg, result, was_reset>>

\* Next<&T>::next for T: High resp. T: Low
NextBar(b) ==
    /\ Live
    /\ op' = "next_bar"
    /\ bar' = b
    /\ DoNext(BarField(kind, b))
    /\ period_out' = 0
    /\ UNCHANGED <<kind, arg, result, was_reset>>

\* Reset::reset
Reset ==
    /\ Live
    /\ op' = "reset"
    /\ IF ResetInRange(self)
       THEN /\ self' = TrackerReset(kind, self)
            /\ fresh' = TrackerNew(kind, self.period)
            /\ window' = <<>>
            /\ was_reset' = TRUE
            /\ fed_finite' = FALSE
            /\ twin' = TrackerReset(Mirror(kind), twin)
            /\ UNCHANGED panicked
       ELSE /\ panicked' = TRUE
            /\ UNCHANGED <<self, fresh, window, was_reset, fed_finite, twin>>
    /\ evicted' = FALSE
    /\ branch' = "none"
    /\ period_out' = 0
    /\ UNCHANGED <<kind, arg, result, input, bar, output, fresh_out,
                   twin_out>>

\* Period::period
Period ==
    /\ Live
    /\ op' = "period"
    /\ period_out' = self.period
    /\ UNCHANGED <<kind, arg, result, self, input, bar, output, window,
                   fresh, fresh_out, was_reset, evicted, branch, fed_finite,
                   twin, twin_out, panicked>>

\* the indicator driven through the scalar interface
Next ==
    \/ \E k \in Kinds, p \in 0..MaxPeriod : New(k, p)
    \/ \E v \in F64 : NextF64(v)
    \/ Reset
    \/ Period

Spec == Init /\ [][Next]_vars

\* the indicator driven by bars
NextBars ==
    \/ \E k \in Kinds, p \in 0..BarMaxPeriod : New(k, p)
    \/ \E b \in Bars : NextBar(b)
    \/ Reset
    \/ Period

SpecBars == Init /\ [][NextBars]_vars

\* ---------------------------------------------------------------- properties
\* the values of a sequence of samples
Range(w) == {w[i] : i \in 1..Len(w)}
\* the values held by the slots of a buffer
Resident(t) == {t.deque[i] : i \in DOMAIN t.deque}
\* the extremum of a set of samples as a fold of f64::max resp. f64::min
\* gives it: the extremum of the ordered samples, NaN when there is none
TrueExtremum(k, S) ==
    LET O == S \ {NAN}
    IN  IF O = {} THEN NAN
        ELSE IF k = "Maximum" THEN CHOOSE x \in O : \A y \in O : x >= y
        ELSE CHOOSE x \in O : \A y \in O : x <= y
\* the last operation was a call of next that returned
Returned == result = "Ok" /\ ~panicked /\ op \in {"next", "next_bar"}

\* the value every slot is filled with by new and reset
Sentinel(k) == IF k = "Maximum" THEN NEG_INFINITY ELSE INFINITY

\* C1 as stated: on a freshly constructed tracker every call of next returns
\* the true extremum of the last min(k, period) samples, whatever they are.
C1_Original ==
    Returned /\ ~was_reset => output = TrueExtremum(kind, Range(window))

\* C1 (amended): on a freshly constructed tracker the k-th call of next
\* returns either NaN or the true extremum of the last min(k, period) samples;
\* when those samples hold no NaN it returns their true extremum.
C1_WindowCorrect ==
    Returned /\ ~was_reset =>
        /\ Len(window) <= self.period
        /\ output # NAN => output = TrueExtremum(kind, Range(window))
        /\ NAN \notin Range(window) =>
              /\ output \in Range(window)
              /\ \A y \in Range(window) :
                    IF kind = "Maximum" THEN output >= y ELSE output <= y

\* a full window of ordered samples whose extremum was just overwritten, so
\* that the rescan picked an older sample
C1_Witness ==
    /\ Returned /\ ~was_reset /\ evicted
    /\ self.period >= 2 /\ Len(window) = self.period
    /\ NAN \notin Range(window)
    /\ output # input /\ output \in Finite

\* C2 as stated: after reset the tracker returns what a freshly constructed
\* tracker of the same period returns for the same samples, and the first
\* next after reset returns its input.
C2_Original ==
    Returned /\ was_reset =>
        /\ output = fresh_out
        /\ Len(window) = 1 => output = input

\* C3 as stated: after reset every slot holds the sentinel and both indices
\* are 0, the state new(period) produces.
C3_Original ==
    result = "Ok" /\ op = "reset" =>
        /\ \A i \in DOMAIN self.deque : self.deque[i] = Sentinel(kind)
        /\ self.cur_index = 0
        /\ ExtremeIndex(kind, self) = 0
        /\ self = TrackerNew(kind, arg)

\* C4: new(0) returns InvalidParameter and builds no tracker; new(p), p >= 1,
\* returns a tracker of exactly p slots, all the sentinel, both indices 0.
C4_Construction ==
    op = "new" =>
        IF arg = 0
        THEN result = "InvalidParameter" /\ self = NoTracker
        ELSE /\ result = "Ok"
             /\ self.period = arg
             /\ DOMAIN self.deque = 0..(arg - 1)
             /\ \A i \in DOMAIN self.deque : self.deque[i] = Sentinel(kind)
             /\ ExtremeIndex(kind, self) = 0
             /\ self.cur_index = 0

C4_Witness == op = "new" /\ result = "Ok" /\ arg >= 2 /\ kind = "Maximum"

\* C5 as stated: no call of next ever returns NaN.
C5_Original == Returned => output # NAN

\* C5 (amended): a NaN is returned only from slot 0: whenever next returns
\* NaN the tracked index is 0 and slot 0 holds the NaN; a NaN held by any
\* other slot is never returned.
C5_NaNOnlyFromSlotZero ==
    /\ Returned /\ output = NAN =>
          ExtremeIndex(kind, self) = 0 /\ self.deque[0] = NAN
    /\ result = "Ok" =>
          \A i \in DOMAIN self.deque :
              self.deque[i] = NAN /\ i # 0 => ExtremeIndex(kind, self) # i

\* next returned NaN while an ordered sample is resident, and a NaN sits in
\* another slot without being tracked
C5_Witness ==
    /\ Returned /\ output = NAN
    /\ \E i \in DOMAIN self.deque : self.deque[i] \in Finite
    /\ \E i \in DOMAIN self.deque : i # 0 /\ self.deque[i] = NAN

\* C6: with period 1 every call of next returns the value supplied, after
\* any sequence of next and reset.
C6_DegenerateWindow ==
    Returned /\ self.period = 1 => output = input

C6_Witness ==
    /\ Returned /\ self.period = 1 /\ was_reset
    /\ output = input /\ input \in Finite

\* C7: period never changes after new, period() returns the value passed to
\* new, and period() changes nothing of the tracker.
C7_PeriodPure ==
    [][/\ result' = "Ok" => self'.period = arg'
       /\ result = "Ok" => arg' = arg /\ self'.period = self.period
       /\ op' = "period" => period_out' = arg' /\ self' = self]_vars

C7_Witness ==
    /\ op = "period" /\ period_out = arg /\ arg >= 2
    /\ was_reset /\ Len(window) >= 1

\* C8: next(&bar) returns the value and leaves the state that the scalar next
\* returns and leaves for the bar's high (Maximum) resp. low (Minimum).
C8_AdapterPassThrough ==
    [][op' = "next_bar" /\ ~panicked' =>
          /\ kind = "Maximum" =>
                /\ self' = MaximumNext(self, bar'.high)
                /\ output' = self'.deque[self'.max_index]
          /\ kind = "Minimum" =>
                /\ self' = MinimumNext(self, bar'.low)
                /\ output' = self'.deque[self'.min_index]]_vars

C8_Witness ==
    /\ op = "next_bar" /\ bar.high # bar.low
    /\ bar.high # NAN /\ bar.low # NAN
    /\ Len(window) >= 2 /\ output # input /\ output \in Finite

\* C9 as stated: between operations buffer[extreme_index] is the true extremum
\* of all values in the buffer.
C9_Original ==
    result = "Ok" =>
        TrackerOutput(kind, self) = TrueExtremum(kind, Resident(self))

\* C9 (amended): between operations buffer[extreme_index] is either NaN or
\* the true extremum of the values in the buffer; when the buffer holds no NaN
\* it is their true extremum, and next returns buffer[extreme_index].
C9_ExtremumInvariant ==
    result = "Ok" =>
        /\ TrackerOutput(kind, self) # NAN =>
              TrackerOutput(kind, self) = TrueExtremum(kind, Resident(self))
        /\ NAN \notin Resident(self) =>
              \A y \in Resident(self) :
                  IF kind = "Maximum" THEN TrackerOutput(kind, self) >= y
                  ELSE TrackerOutput(kind, self) <= y
        /\ Returned => output = TrackerOutput(kind, self)

\* after a reset, the slot of the incumbent extremum was overwritten by a
\* less extreme sample and an older resident became the extremum
C9_Witness ==
    /\ Returned /\ was_reset /\ evicted
    /\ self.period >= 2
    /\ NAN \notin Resident(self) /\ Sentinel(kind) \notin Resident(self)
    /\ output # input

\* C10: cur_index and the extremum index stay inside the buffer, so next and
\* reset never index out of range.
C10_IndexBounds ==
    /\ ~panicked
    /\ result = "Ok" =>
          /\ DOMAIN self.deque = 0..(self.period - 1)
          /\ self.cur_index \in 0..(self.period - 1)
          /\ ExtremeIndex(kind, self) \in 0..(self.period - 1)

\* the cursor wrapped to 0 while the extremum sits in the last slot
C10_Witness ==
    /\ Returned /\ self.period >= 2
    /\ self.cur_index = 0
    /\ ExtremeIndex(kind, self) = self.period - 1

\* the slot the last next wrote: the one before the cursor, circularly
Written(t) == (t.cur_index + t.period - 1) % t.period

\* C11: next(v) writes v into the slot at the pre-call cursor, leaves every
\* other slot unchanged and sets the cursor to (cursor + 1) mod period; the
\* slot it overwrites holds the sentinel while fewer than period samples were
\* fed since new or reset, and otherwise the sample fed period calls earlier.
C11_CircularWrite ==
    [][op' = "next" /\ ~panicked' =>
          /\ self'.deque = [self.deque EXCEPT ![self.cur_index] = input']
          /\ self'.cur_index = (self.cur_index + 1) % self.period
          /\ IF Len(window) < self.period
             THEN self.deque[self.cur_index] = Sentinel(kind)
             ELSE self.deque[self.cur_index] = window[1]]_vars

\* more than period samples were fed to a new tracker (only then can the slot
\* of the extremum be the one written with the window full): the last next
\* overwrote the oldest sample and the slot before the cursor holds the newest
C11_Witness ==
    /\ Returned /\ ~was_reset /\ evicted
    /\ self.period >= 2 /\ Len(window) = self.period
    /\ self.cur_index = 1
    /\ self.deque[Written(self)] = input /\ input \in Finite
    /\ window[1] # input

\* the index update of next with check (b) evaluated before check (a)
max_select_scan_first(t, d, v) ==
    IF t.max_index = t.cur_index THEN find_max_index(d)
    ELSE IF gt(v, d[t.max_index]) THEN t.cur_index
    ELSE t.max_index
min_select_scan_first(t, d, v) ==
    IF t.min_index = t.cur_index THEN find_min_index(d)
    ELSE IF lt(v, d[t.min_index]) THEN t.cur_index
    ELSE t.min_index
\* the index next(v) selects, and the index it would select with (b) first
SelectOf(k, t, v) ==
    LET d == [t.deque EXCEPT ![t.cur_index] = v]
    IN  IF k = "Maximum" THEN max_select(t, d, v) ELSE min_select(t, d, v)
ScanFirstOf(k, t, v) ==
    LET d == [t.deque EXCEPT ![t.cur_index] = v]
    IN  IF k = "Maximum" THEN max_select_scan_first(t, d, v)
        ELSE min_select_scan_first(t, d, v)
\* the value next(v) returns when it selects index i
ValueAt(t, v, i) == [t.deque EXCEPT ![t.cur_index] = v][i]

\* C12 as stated: the order of the two checks decides the result: where both
\* can apply (the slot written is the slot of the extremum) some sample gives
\* a different index or return value when (b) is evaluated before (a).
C12_Original ==
    result = "Ok" /\ ~panicked /\ ExtremeIndex(kind, self) = self.cur_index =>
        \E v \in F64 :
            \/ SelectOf(kind, self, v) # ScanFirstOf(kind, self, v)
            \/ ValueAt(self, v, SelectOf(kind, self, v))
                  # ValueAt(self, v, ScanFirstOf(kind, self, v))

\* C12 (amended): the order of the two checks does not change the result:
\* the sample is written before it is compared, so (a) is never true when
\* extreme_index == cursor, and next with (b) evaluated first selects the same
\* index and returns the same value for every state and sample.
C12_OrderIrrelevant ==
    result = "Ok" /\ ~panicked =>
        \A v \in F64 :
            /\ SelectOf(kind, self, v) = ScanFirstOf(kind, self, v)
            /\ ValueAt(self, v, SelectOf(kind, self, v))
                  = ValueAt(self, v, ScanFirstOf(kind, self, v))
            /\ ExtremeIndex(kind, self) = self.cur_index =>
                  TrackerBranch(kind, self, v) = "scan"

\* a sample above every resident value landed in the slot of the previous
\* maximum and became the maximum, through the scan
C12_Witness ==
    /\ Returned /\ kind = "Maximum" /\ ~was_reset /\ evicted
    /\ self.period >= 2 /\ Len(window) = self.period
    /\ branch = "scan"
    /\ self.max_index = Written(self) /\ output = input
    /\ \A i \in DOMAIN self.deque : i # Written(self) => gt(input, self.deque[i])

\* a is strictly more extreme than b for an indicator of kind k
Beats(k, a, b) == IF k = "Maximum" THEN gt(a, b) ELSE lt(a, b)

\* C13: when the sample passed to next is strictly more extreme than every
\* other value in the buffer, the extremum index is the slot just written
\* after the call, also when that slot held the previous extremum.
C13_NewExtremumTakesSlot ==
    Returned /\ (\A i \in DOMAIN self.deque :
                    i # Written(self) => Beats(kind, input, self.deque[i])) =>
        /\ self.deque[Written(self)] = input
        /\ ExtremeIndex(kind, self) = Written(self)
        /\ output = input

\* a sample below every other resident value was written into the slot that
\* held the previous minimum of a full window
C13_Witness ==
    /\ Returned /\ kind = "Minimum" /\ ~was_reset /\ evicted
    /\ self.period >= 2 /\ Len(window) = self.period
    /\ input \in Finite
    /\ \A i \in DOMAIN self.deque : i # Written(self) => lt(input, self.deque[i])
    /\ \A i \in DOMAIN self.deque : self.deque[i] # INFINITY

\* C14: next calls find_max_index / find_min_index only if the extremum
\* index equalled the cursor when the call started.
C14_RescanOnlyOnEviction ==
    /\ Returned /\ branch = "scan" => evicted
    /\ result = "Ok" /\ ~panicked =>
          \A v \in F64 :
              TrackerBranch(kind, self, v) = "scan" =>
                  ExtremeIndex(kind, self) = self.cur_index

\* one next of a full window scanned, and the state it left does not scan
\* for any sample
C14_Witness ==
    /\ Returned /\ branch = "scan" /\ evicted
    /\ self.period >= 2 /\ Len(window) = self.period
    /\ ExtremeIndex(kind, self) # self.cur_index
    /\ \A v \in F64 : TrackerBranch(kind, self, v) # "scan"

\* C15 as stated: when the sample is not strictly more extreme than
\* buffer[extreme_index] and extreme_index differs from the cursor at the start
\* of next, the call leaves extreme_index unchanged and returns the value the
\* previous call of next returned.
C15_Original ==
    [][/\ op' = "next" /\ ~panicked'
       /\ ~Beats(kind, input', self.deque[ExtremeIndex(kind, self)])
       /\ ExtremeIndex(kind, self) # self.cur_index
       => /\ ExtremeIndex(kind, self') = ExtremeIndex(kind, self)
          /\ output' = output]_vars

\* the slots whose value is strictly more extreme than the sentinel
AboveSentinel(k, t) ==
    {i \in DOMAIN t.deque : Beats(k, t.deque[i], Sentinel(k))}
\* the lowest index holding the extremum of the ordered values of the buffer
LowestExtreme(k, t) ==
    CHOOSE i \in DOMAIN t.deque :
        /\ t.deque[i] = TrueExtremum(k, Resident(t))
        /\ \A j \in DOMAIN t.deque : t.deque[j] = t.deque[i] => i <= j

\* C16: when next re-derives the extremum index by the full scan, the index is
\* the lowest one whose slot holds the extremum of the buffer, and 0 when no
\* slot is strictly more extreme than the sentinel.
C16_ScanTieBreak ==
    Returned /\ branch = "scan" =>
        IF AboveSentinel(kind, self) = {}
        THEN ExtremeIndex(kind, self) = 0
        ELSE ExtremeIndex(kind, self) = LowestExtreme(kind, self)

\* the scan found the extremum in two slots, neither of them slot 0, and
\* took the lower one
C16_Witness ==
    /\ Returned /\ branch = "scan"
    /\ output \in Finite
    /\ ExtremeIndex(kind, self) = 1
    /\ \E j \in DOMAIN self.deque : j > 1 /\ self.deque[j] = output

\* C17 as stated: once a finite sample was fed since new or the last reset,
\* next never returns the sentinel.
C17_Original ==
    Returned /\ fed_finite => output # Sentinel(kind)

\* C17 (amended): while a finite sample is among the last min(k, period)
\* samples fed since new or the last reset, next does not return the
\* sentinel, also while the window is not yet full.
C17_SentinelNeverWins ==
    Returned /\ Range(window) \cap Finite # {} => output # Sentinel(kind)

\* after a reset the window is not yet full, holds a finite sample, and a
\* sentinel slot is still resident: next returned the finite sample
C17_Witness ==
    /\ Returned /\ was_reset
    /\ Len(window) < self.period
    /\ Range(window) \cap Finite # {}
    /\ Sentinel(kind) \in Resident(self)
    /\ output \in Finite

\* C18: a second reset right after a reset leaves buffer, cursor, extremum
\* index and period as the first one left them.
C18_ResetIdempotent ==
    /\ result = "Ok" /\ ~panicked =>
          TrackerReset(kind, TrackerReset(kind, self)) = TrackerReset(kind, self)
    /\ result = "Ok" /\ op = "reset" => TrackerReset(kind, self) = self

\* a reset after samples were fed, with the cursor and the extremum index
\* away from 0
C18_Witness ==
    /\ op = "reset" /\ result = "Ok"
    /\ self.cur_index # 0 /\ ExtremeIndex(kind, self) # 0
    /\ output \in Finite

\* C19: a Minimum fed the negated samples stays in lock-step with a Maximum
\* fed the samples: equal extremum indices, equal cursors, every Minimum slot
\* the negation of the Maximum slot, every return value the negation.
C19_PolarityMirror ==
    result = "Ok" /\ ~panicked =>
        /\ twin.period = self.period
        /\ twin.cur_index = self.cur_index
        /\ ExtremeIndex(Mirror(kind), twin) = ExtremeIndex(kind, self)
        /\ DOMAIN twin.deque = DOMAIN self.deque
        /\ \A i \in DOMAIN self.deque : twin.deque[i] = Neg(self.deque[i])
        /\ Returned => twin_out = Neg(output)

\* after a reset both indicators scanned a full window holding a tie, a NaN
\* aside, and returned opposite finite values
C19_Witness ==
    /\ Returned /\ kind = "Maximum" /\ was_reset
    /\ branch = "scan" /\ self.period >= 3 /\ Len(window) = self.period
    /\ output \in Finite /\ output # 0 /\ twin_out = 0 - output
    /\ twin.min_index = self.max_index
    /\ \E i, j \in DOMAIN self.deque : i # j /\ self.deque[i] = self.deque[j]
    /\ NAN \in Resident(self)

====
